---- MODULE Spec2Model ----
(***************************************************************************)
(* mm-sol: the retry executor (transfer.py), the confirmation poller       *)
(* (cli/cli_utils.py), the transfer command (cli/cmd/transfer_cmd.py) and  *)
(* the converters (converters.py) and the RPC layer (rpc_sync.py).         *)
(*                                                                         *)
(* The specifications of the module:                                       *)
(*   SpecRetry  - transfer_sol_with_retries called once on drawn inputs    *)
(*   SpecPoller - wait_confirmation called once                            *)
(*   FairPoller - SpecPoller with the loop step weakly fair                *)
(*   Spec       - the transfer command: run, _run_transfers, _transfer     *)
(*   SpecLoad   - the transfer command from Config.load_or_exit on         *)
(*   SpecConv   - to_lamports / transfer_sol's conversion called once      *)
(*   SpecRpc    - rpc_call / get_balance called once                       *)
(***************************************************************************)
EXTENDS Integers, Sequences, FiniteSets, TLC

VARIABLES
    args,    \* transfer_sol_with_retries: the keyword arguments of the call
    rx,      \* transfer_sol_with_retries: its locals (res, loop position) and where it is
    calls,   \* every transfer_sol invocation made so far: node, proxy, result
    wc,      \* wait_confirmation: its locals and what it did
    config,      \* transfer command: the loaded Config
    cmd_params,  \* transfer command: TransferCmdParams
    main,        \* transfer command: where run / _run_transfers is, its loop index, its sleeps
    frames,      \* transfer command: the locals of each route's _transfer call
    outcome,     \* transfer command: per route, the last info line its _transfer call logged
    raw,         \* transfer command: the configuration as read, before Config validation
    conv,        \* converters: the arguments of one conversion call and what it returned
    rpc          \* rpc_sync: the arguments of one call, the HTTP outcome and what it returned

vars == <<args, rx, calls, wc, config, cmd_params, main, frames, outcome, raw, conv, rpc>>
input_vars == <<raw, conv, rpc>>
retry_vars == <<args, rx, calls>>
cmd_vars == <<config, cmd_params, main, frames, outcome>>

(***************************************************************************)
(* Bounds                                                                  *)
(***************************************************************************)
MaxRetries == 3
MaxRoutes == 3

(***************************************************************************)
(* Result (mm_std): Ok(value) / Err(error)                                 *)
(***************************************************************************)
Ok(v) == [tag |-> "Ok", v |-> v]
Err(e) == [tag |-> "Err", v |-> e]
\* a Result[int]: the value and the error are kept apart
OkInt(v) == [tag |-> "Ok", v |-> v, e |-> ""]
ErrInt(e) == [tag |-> "Err", v |-> 0, e |-> e]
is_ok(res) == res.tag = "Ok"
is_err(res) == res.tag = "Err"

(***************************************************************************)
(* utils.py: get_node, get_proxy.  A Nodes / Proxies argument is None, one *)
(* string, or a list of strings; `items` holds the string(s).  Each        *)
(* operator gives the set of outcomes random.choice can produce; choosing  *)
(* from an empty list raises IndexError.                                   *)
(***************************************************************************)
DEFAULT_MAINNET_RPC == "https://api.mainnet-beta.solana.com"
IndexError == "raise IndexError"
None == "None"

NoneArg == [kind |-> "none", items |-> <<>>]
StrArg(s) == [kind |-> "str", items |-> <<s>>]
ListArg(l) == [kind |-> "list", items |-> l]
Members(a) == {a.items[j] : j \in DOMAIN a.items}

get_node_default(nodes) ==
    IF nodes.kind = "str" THEN {nodes.items[1]} ELSE {DEFAULT_MAINNET_RPC}

get_node(nodes) ==
    IF nodes.kind = "none" THEN {DEFAULT_MAINNET_RPC}
    ELSE IF nodes.kind = "str" THEN {nodes.items[1]}
    ELSE IF nodes.items = <<>> THEN {IndexError}
    ELSE Members(nodes)

get_proxy_lists_only(proxies) ==
    IF proxies.kind = "list" /\ proxies.items # <<>> THEN Members(proxies) ELSE {None}

get_proxy(proxies) ==
    IF proxies.kind = "none" \/ proxies.items = <<>> THEN {None}
    ELSE IF proxies.kind = "str" THEN {proxies.items[1]}
    ELSE Members(proxies)

(***************************************************************************)
(* transfer.py: transfer_sol.  `key` says what the private key is:         *)
(* "valid" (the key of from_address), "mismatch" (a well-formed key of     *)
(* another address) or "malformed" (get_keypair raises, outside the try).  *)
(* `net` is what the network does with this attempt:                       *)
(*   "rpc_error"     get_latest_blockhash or send_transaction raises       *)
(*                   before the node accepted the transaction              *)
(*   "lost_response" the node accepted the transaction and the call still  *)
(*                   raised (response timeout, res.to_json() failing)      *)
(*   "accepted"      send_transaction returned the signature               *)
(***************************************************************************)
NetOutcomes == {"rpc_error", "lost_response", "accepted"}
KeyError == "raise ValueError"

\* `client` says whether utils.get_client (line 30) was reached
transfer_sol_without_key_check(node, proxy, key, net) ==
    IF key = "malformed"
        THEN [raised |-> TRUE, res |-> Err(KeyError), accepted |-> FALSE, client |-> FALSE]
    ELSE IF net = "accepted"
        THEN [raised |-> FALSE, res |-> Ok("signature"), accepted |-> TRUE, client |-> TRUE]
    ELSE [raised |-> FALSE, res |-> Err(net), accepted |-> (net = "lost_response"),
          client |-> TRUE]

transfer_sol(node, proxy, key, net) ==
    IF key = "malformed"
        THEN [raised |-> TRUE, res |-> Err(KeyError), accepted |-> FALSE, client |-> FALSE]
    ELSE IF key = "mismatch"
        THEN [raised |-> FALSE, res |-> Err("invalid_private_key"), accepted |-> FALSE,
              client |-> FALSE]
    ELSE IF net = "accepted"
        THEN [raised |-> FALSE, res |-> Ok("signature"), accepted |-> TRUE, client |-> TRUE]
    ELSE [raised |-> FALSE, res |-> Err(net), accepted |-> (net = "lost_response"),
          client |-> TRUE]

(***************************************************************************)
(* transfer.py: transfer_sol_with_retries                                  *)
(***************************************************************************)
NodeArgs ==
    {NoneArg, StrArg("http://n1"), ListArg(<<>>), ListArg(<<"http://n1">>),
     ListArg(<<"http://n1", "http://n2">>)}
ProxyArgs == {NoneArg, ListArg(<<>>), StrArg("http://p1"), ListArg(<<"http://p1", "http://p2">>)}
KeyKinds == {"valid", "mismatch", "malformed"}

InitRetryLocals == [pc |-> "loop", k |-> 0, res |-> Err("not started yet")]

\* for _ in range(retries)
range_has_next_off_by_one(k, retries) == k <= retries
range_has_next(k, retries) == k < retries

\* if res.is_ok(): return res
return_on_ok(res) == is_ok(res)

\* res = transfer_sol(...): the loop keeps the latest result
loop_result_keep_first(prev, new) == IF prev = Err("not started yet") THEN new ELSE prev
loop_result(prev, new) == new

\* One iteration of the loop body: the arguments are evaluated in order
\* (get_node, then get_proxy), then transfer_sol is called.
transfer_sol_with_retries_iter ==
    /\ rx.pc = "loop"
    /\ range_has_next(rx.k, args.retries)
    /\ \E node \in get_node(args.nodes), proxy \in get_proxy(args.proxies), net \in NetOutcomes :
        IF node = IndexError
        THEN /\ rx' = [rx EXCEPT !.pc = "raised"]
             /\ UNCHANGED calls
        ELSE LET t == transfer_sol(node, proxy, args.key, net) IN
             /\ calls' = Append(calls, [node |-> node, proxy |-> proxy, res |-> t.res,
                                        raised |-> t.raised, accepted |-> t.accepted,
                                        client |-> t.client])
             /\ rx' = IF t.raised
                      THEN [rx EXCEPT !.pc = "raised"]
                      ELSE [pc |-> IF return_on_ok(t.res) THEN "returned" ELSE "loop",
                            k |-> rx.k + 1,
                            res |-> loop_result(rx.res, t.res)]
    /\ UNCHANGED <<args, wc, cmd_vars, input_vars>>

\* The loop is exhausted: return res
transfer_sol_with_retries_exhausted ==
    /\ rx.pc = "loop"
    /\ ~range_has_next(rx.k, args.retries)
    /\ rx' = [rx EXCEPT !.pc = "returned"]
    /\ UNCHANGED <<args, calls, wc, cmd_vars, input_vars>>

(***************************************************************************)
(* cli/cli_utils.py: wait_confirmation.  One action is one iteration of    *)
(* the while loop.  `q` is what the status query of the iteration does:    *)
(*   "exception"     random_node, get_client or get_transaction raises     *)
(*   "null"          the reply has no value (transaction not visible)      *)
(*   "included"      the reply has a value with a slot, no execution error *)
(*   "included_err"  the reply has a value with a slot and meta.err set    *)
(*                   (the transaction was included and failed on-chain)    *)
(***************************************************************************)
QueryOutcomes == {"exception", "null", "included", "included_err"}
ConfirmationBudget == 30

IdleWc ==
    [pc |-> "idle", count |-> 0, result |-> FALSE, queries |-> 0, sleeps |-> 0,
     last |-> "none", emitted |-> <<>>]
StartWc == [IdleWc EXCEPT !.pc = "loop"]

\* if res.value and res.value.slot
has_slot(q) == q \in {"included", "included_err"}

\* if count > 30
over_budget_never(count) == FALSE
over_budget_at_thirty(count) == count >= ConfirmationBudget
over_budget(count) == count > ConfirmationBudget

wait_confirmation_iter_sleep_first(w, q) ==
    IF has_slot(q)
    THEN [w EXCEPT !.pc = "returned", !.result = TRUE, !.queries = @ + 1, !.sleeps = @ + 1,
                   !.count = @ + 1, !.last = q, !.emitted = <<>>]
    ELSE [w EXCEPT !.queries = @ + 1, !.sleeps = @ + 1, !.count = @ + 1, !.last = q,
                   !.pc = IF over_budget(w.count + 1) THEN "returned" ELSE "loop",
                   !.result = FALSE, !.emitted = <<>>]

wait_confirmation_iter_no_except(w, q) ==
    IF q = "exception"
    THEN [w EXCEPT !.pc = "raised", !.queries = @ + 1, !.last = q, !.emitted = <<>>]
    ELSE IF has_slot(q)
    THEN [w EXCEPT !.pc = "returned", !.result = TRUE, !.queries = @ + 1,
                   !.last = q, !.emitted = <<>>]
    ELSE [w EXCEPT !.queries = @ + 1, !.sleeps = @ + 1, !.count = @ + 1, !.last = q,
                   !.pc = IF over_budget(w.count + 1) THEN "returned" ELSE "loop",
                   !.result = FALSE,
                   !.emitted = IF over_budget(w.count + 1)
                               THEN <<"can't get confirmation, timeout">> ELSE <<>>]

wait_confirmation_iter(w, q) ==
    IF has_slot(q)
    THEN [w EXCEPT !.pc = "returned", !.result = TRUE, !.queries = @ + 1,
                   !.last = q, !.emitted = <<>>]
    ELSE LET c == w.count + 1
             errs == IF q = "exception" THEN <<"can't get confirmation, error">> ELSE <<>>
         IN IF over_budget(c)
            THEN [w EXCEPT !.pc = "returned", !.result = FALSE, !.queries = @ + 1,
                           !.sleeps = @ + 1, !.count = c, !.last = q,
                           !.emitted = errs \o <<"can't get confirmation, timeout">>]
            ELSE [w EXCEPT !.queries = @ + 1, !.sleeps = @ + 1, !.count = c, !.last = q,
                           !.emitted = errs]

wait_confirmation_step ==
    /\ wc.pc = "loop"
    /\ \E q \in QueryOutcomes : wc' = wait_confirmation_iter(wc, q)
    /\ UNCHANGED <<retry_vars, cmd_vars, input_vars>>

(***************************************************************************)
(* cli/cmd/transfer_cmd.py: the transfer command                           *)
(*                                                                         *)
(* An optional int (int | None) is a record: k is "unset" before the       *)
(* assignment, "None" or "int".  An optional expression string is a record *)
(* with k "None" or "expr"; a literal expression holds its amount and unit.*)
(***************************************************************************)
UnsetInt == [k |-> "unset", v |-> 0]
NoneInt == [k |-> "None", v |-> 0]
SomeInt(v) == [k |-> "int", v |-> v]

NoExpr == [k |-> "None", amount |-> 0, unit |-> ""]
Literal(amount, unit) == [k |-> "expr", amount |-> amount, unit |-> unit]

RECURSIVE Pow10(_)
Pow10(n) == IF n <= 0 THEN 1 ELSE 10 * Pow10(n - 1)

\* mm_sol.cli.calcs.calc_sol_expression / calc_token_expression on a literal:
\* the amount scaled to smallest units
calc_sol_expression(e) == e.amount * Pow10(9)
calc_token_expression(e, token_decimals) == e.amount * Pow10(token_decimals)

\* mm_sol.cli.calcs.calc_sol_value_for_address / calc_token_value_for_address:
\* the results a value expression over the live balance can resolve to
ResolvedValues == {-5000, 999999, 1000000000}
calc_value_for_address(cfg) == {ErrInt("balance error")} \cup {OkInt(v) : v \in ResolvedValues}

\* mm_sol.retry.get_token_decimals(3, ...)
get_token_decimals(cfg) == {ErrInt("decimals error"), OkInt(6)}

\* mm_sol.retry.transfer_sol / transfer_token (3, ...): the result of one
\* attempt, and whether the executor goes on to another attempt
SubmitResults == {Err("rpc_error"), Ok("signature")}
retry_goes_on(attempts, n, res) == is_err(res) /\ n < attempts

SendAttempts == 3

RoutePool ==
    <<[from_address |-> "from1", to_address |-> "to1", value |-> "balance"],
      [from_address |-> "from2", to_address |-> "to2", value |-> "balance*0.5"],
      [from_address |-> "from3", to_address |-> "to3", value |-> "balance"],
      [from_address |-> "from4", to_address |-> "to4", value |-> "balance*0.5"]>>

Routes == DOMAIN config.transfers

IdleFrame ==
    [pc |-> "idle", value |-> UnsetInt, attempts |-> 0, signature |-> None,
     status |-> "none", wc |-> IdleWc, info |-> <<>>]

\* _calc_value, from the result of the awaited calcs call on: the value it
\* returns and the info line it logs
_calc_value(value_res) ==
    IF is_err(value_res)
    THEN [value |-> NoneInt, info |-> <<"calc value error">>]
    ELSE [value |-> SomeInt(value_res.v), info |-> <<>>]

below_min_limit(value, cfg) ==
    /\ cfg.value_min_limit.k # "None"
    /\ value.v < (IF cfg.token # None
                  THEN calc_token_expression(cfg.value_min_limit, cfg.token_decimals)
                  ELSE calc_sol_expression(cfg.value_min_limit))

\* _check_value_min_limit: what it returns and the info line it logs
_check_value_min_limit(value, cfg) ==
    [ret |-> TRUE,
     info |-> IF below_min_limit(value, cfg) THEN <<"value<value_min_limit">> ELSE <<>>]

\* _send_tx, from the result of the awaited retry call on
_send_tx_unwraps(res) ==
    IF is_err(res)
    THEN [raised |-> TRUE, signature |-> None, info |-> <<>>]
    ELSE [raised |-> FALSE, signature |-> res.v, info |-> <<>>]
_send_tx(res) ==
    IF is_err(res)
    THEN [raised |-> FALSE, signature |-> None, info |-> <<"tx error">>]
    ELSE [raised |-> FALSE, signature |-> res.v, info |-> <<>>]

\* _transfer: if value is None: return
value_is_none_never(value) == FALSE
value_is_none(value) == value.k = "None"

\* _transfer: if signature is None: return
signature_is_none_never(signature) == FALSE
signature_is_none(signature) == signature = None

\* if not cmd_params.no_confirmation
confirmation_requested_always(params) == TRUE
confirmation_requested(params) == ~params.no_confirmation

\* if res: status = "OK"  (res is what wait_confirmation returned)
confirmed_status_always_ok(status, result) == "OK"
confirmed_status(status, result) == IF result THEN "OK" ELSE status

\* _transfer: the final info line (sig, value, status) and the return
_transfer_final(f) == [f EXCEPT !.pc = "ret", !.info = @ \o <<f.status>>]

\* _transfer from the value on, up to the await of _send_tx
_transfer_after_calc_ignores_emulate(f) ==
    IF value_is_none(f.value) THEN [f EXCEPT !.pc = "ret"]
    ELSE LET chk == _check_value_min_limit(f.value, config)
             f2 == [f EXCEPT !.info = @ \o chk.info]
         IN IF ~chk.ret THEN [f2 EXCEPT !.pc = "ret"]
            ELSE [f2 EXCEPT !.pc = "send"]

_transfer_after_calc(f) ==
    IF value_is_none(f.value) THEN [f EXCEPT !.pc = "ret"]
    ELSE LET chk == _check_value_min_limit(f.value, config)
             f2 == [f EXCEPT !.info = @ \o chk.info]
         IN IF ~chk.ret THEN [f2 EXCEPT !.pc = "ret"]
            ELSE IF cmd_params.emulate
                THEN [f2 EXCEPT !.pc = "ret", !.info = @ \o <<"emulate">>]
            ELSE [f2 EXCEPT !.pc = "send"]

\* _transfer from the signature on, up to wait_confirmation or the return
_transfer_after_send(f, sent) ==
    LET f1 == [f EXCEPT !.signature = sent.signature, !.info = @ \o sent.info]
    IN IF sent.raised THEN [f1 EXCEPT !.pc = "raised"]
       ELSE IF signature_is_none(sent.signature) THEN [f1 EXCEPT !.pc = "ret"]
       ELSE IF confirmation_requested(cmd_params)
           THEN [f1 EXCEPT !.status = "UNKNOWN", !.pc = "confirm", !.wc = StartWc]
       ELSE _transfer_final([f1 EXCEPT !.status = "UNKNOWN"])

\* value = await _calc_value(...) completes; _transfer runs on to its return
\* or to the await of _send_tx
_transfer_calc_value(r) ==
    /\ frames[r].pc = "calc"
    /\ \E value_res \in calc_value_for_address(config) :
        LET cv == _calc_value(value_res)
            f1 == [frames[r] EXCEPT !.value = cv.value, !.info = @ \o cv.info]
        IN frames' = [frames EXCEPT ![r] = _transfer_after_calc(f1)]
    /\ UNCHANGED <<retry_vars, wc, config, cmd_params, main, outcome, input_vars>>

\* One attempt of the retry call inside _send_tx; after the last one _send_tx
\* returns and _transfer runs on
_send_tx_attempt_one_more(r) ==
    /\ frames[r].pc = "send"
    /\ \E res \in SubmitResults :
        LET n == frames[r].attempts + 1
            f1 == [frames[r] EXCEPT !.attempts = n]
        IN frames' = [frames EXCEPT ![r] =
                        IF retry_goes_on(SendAttempts + 1, n, res) THEN f1
                        ELSE _transfer_after_send(f1, _send_tx(res))]
    /\ UNCHANGED <<retry_vars, wc, config, cmd_params, main, outcome, input_vars>>

_send_tx_attempt(r) ==
    /\ frames[r].pc = "send"
    /\ \E res \in SubmitResults :
        LET n == frames[r].attempts + 1
            f1 == [frames[r] EXCEPT !.attempts = n]
        IN frames' = [frames EXCEPT ![r] =
                        IF retry_goes_on(SendAttempts, n, res) THEN f1
                        ELSE _transfer_after_send(f1, _send_tx(res))]
    /\ UNCHANGED <<retry_vars, wc, config, cmd_params, main, outcome, input_vars>>

\* One iteration of wait_confirmation called by _transfer; when it returns
\* _transfer sets the status, logs the final line and returns
_transfer_wait_confirmation(r) ==
    /\ frames[r].pc = "confirm"
    /\ \E q \in QueryOutcomes :
        LET w == wait_confirmation_iter(frames[r].wc, q)
            f1 == [frames[r] EXCEPT !.wc = w]
        IN frames' = [frames EXCEPT ![r] =
                        IF w.pc = "returned"
                        THEN _transfer_final([f1 EXCEPT !.status = confirmed_status(@, w.result)])
                        ELSE f1]
    /\ UNCHANGED <<retry_vars, wc, config, cmd_params, main, outcome, input_vars>>

(***************************************************************************)
(* cli/cmd/transfer_cmd.py: Config.final_validator and the load of the     *)
(* configuration at the head of run.  `raw` is the configuration as read,  *)
(* its fields already past their own validators; a route read without a   *)
(* value holds "".                                                         *)
(***************************************************************************)
MaxLoadRoutes == 2

\* Config.from_addresses
from_addresses(cfg) == {cfg.transfers[j].from_address : j \in DOMAIN cfg.transfers}

\* PrivateKeyMap.contains_all_addresses
contains_all_addresses(private_keys, addresses) == addresses \subseteq private_keys

\* `not transfer.value`
value_not_set(value) == value = "" \/ value = None

\* transfer.value = self.default_value, for the routes read without a value
fill_default_value_overwrites(cfg) ==
    [cfg EXCEPT !.transfers =
        [j \in DOMAIN @ |->
            IF cfg.default_value # None
            THEN [@[j] EXCEPT !.value = cfg.default_value]
            ELSE @[j]]]
fill_default_value(cfg) ==
    [cfg EXCEPT !.transfers =
        [j \in DOMAIN @ |->
            IF value_not_set(@[j].value) /\ cfg.default_value # None
            THEN [@[j] EXCEPT !.value = cfg.default_value]
            ELSE @[j]]]

\* mm_sol.constants.UNIT_DECIMALS: the unit names of sol expressions
UNIT_DECIMALS == {"sol"}
TokenUnitNames == {"t"}

\* Validators.valid_sol_expression()(e) / valid_token_expression()(e): an
\* expression with a unit of the other kind raises
valid_expression(e, units) == e.k = "None" \/ e.unit = "" \/ e.unit \in units

ConfigOk(cfg) == [raised |-> FALSE, error |-> "", config |-> cfg]
ConfigError(cfg, error) == [raised |-> TRUE, error |-> error, config |-> cfg]

final_validator_without_keys(cfg) ==
    LET filled == fill_default_value(cfg)
    IN IF \E j \in DOMAIN filled.transfers : value_not_set(filled.transfers[j].value)
       THEN ConfigError(filled, "value is not set")
       ELSE IF ~valid_expression(cfg.value_min_limit,
                                 IF cfg.token # None THEN TokenUnitNames ELSE UNIT_DECIMALS)
       THEN ConfigError(filled, "invalid expression")
       ELSE ConfigOk(filled)

final_validator(cfg) ==
    IF ~contains_all_addresses(cfg.private_keys, from_addresses(cfg))
    THEN ConfigError(cfg, "private keys are not set for all addresses")
    ELSE LET filled == fill_default_value(cfg)
         IN IF \E j \in DOMAIN filled.transfers : value_not_set(filled.transfers[j].value)
            THEN ConfigError(filled, "value is not set")
            ELSE IF ~valid_expression(cfg.value_min_limit,
                                      IF cfg.token # None THEN TokenUnitNames ELSE UNIT_DECIMALS)
            THEN ConfigError(filled, "invalid expression")
            ELSE ConfigOk(filled)

\* run: config = Config.load_or_exit(cmd_params.config_path)
load_or_exit ==
    /\ main.pc = "load"
    /\ LET loaded == final_validator(raw)
       IN IF loaded.raised
          THEN /\ main' = [main EXCEPT !.pc = "config_error"]
               /\ UNCHANGED <<config, frames, outcome>>
          ELSE /\ config' = loaded.config
               /\ main' = [main EXCEPT !.pc = "run"]
               /\ frames' = [r \in DOMAIN loaded.config.transfers |-> IdleFrame]
               /\ outcome' = [r \in DOMAIN loaded.config.transfers |-> "pending"]
    /\ UNCHANGED <<retry_vars, wc, cmd_params, input_vars>>

cfg_decimals_unset == -1

\* run: the exits before the transfers, the token decimals lookup, and the
\* call of _run_transfers
run_goes_on_without_decimals ==
    /\ main.pc = "run"
    /\ IF cmd_params.print_config_and_exit
       THEN main' = [main EXCEPT !.pc = "exit"] /\ UNCHANGED config
       ELSE \E res \in (IF config.token # None THEN get_token_decimals(config) ELSE {OkInt(cfg_decimals_unset)}) :
            /\ config' = IF is_err(res) THEN config ELSE [config EXCEPT !.token_decimals = res.v]
            /\ main' = [main EXCEPT !.pc =
                   IF cmd_params.print_transfers \/ cmd_params.print_balances
                   THEN "exit" ELSE "loop"]
    /\ UNCHANGED <<retry_vars, wc, cmd_params, frames, outcome, input_vars>>

run ==
    /\ main.pc = "run"
    /\ IF cmd_params.print_config_and_exit
       THEN main' = [main EXCEPT !.pc = "exit"] /\ UNCHANGED config
       ELSE \E res \in (IF config.token # None THEN get_token_decimals(config) ELSE {OkInt(cfg_decimals_unset)}) :
            IF is_err(res)
            THEN main' = [main EXCEPT !.pc = "fatal"] /\ UNCHANGED config
            ELSE /\ config' = [config EXCEPT !.token_decimals = res.v]
                 /\ main' = [main EXCEPT !.pc =
                        IF cmd_params.print_transfers \/ cmd_params.print_balances
                        THEN "exit" ELSE "loop"]
    /\ UNCHANGED <<retry_vars, wc, cmd_params, frames, outcome, input_vars>>

\* await _transfer(...): the awaiting loop resumes once the call has returned
transfer_returned_not_awaited(f) == TRUE
transfer_returned(f) == f.pc \in {"ret", "raised"}

\* if config.delay is not None and i < len(config.transfers) - 1
delay_applies_after_last(cfg, i) == cfg.delay.k # "None"
delay_applies(cfg, i) == cfg.delay.k # "None" /\ i < Len(cfg.transfers) - 1

\* _run_transfers: the loop calls _transfer for the next route
_run_transfers_call_consumes_route ==
    /\ main.pc = "loop"
    /\ main.i < Len(config.transfers)
    /\ frames' = [frames EXCEPT ![main.i + 1] = [IdleFrame EXCEPT !.pc = "calc"]]
    /\ main' = [main EXCEPT !.pc = "await"]
    /\ config' = [config EXCEPT !.transfers[main.i + 1].value = ""]
    /\ UNCHANGED <<retry_vars, wc, cmd_params, outcome, input_vars>>

_run_transfers_call ==
    /\ main.pc = "loop"
    /\ main.i < Len(config.transfers)
    /\ frames' = [frames EXCEPT ![main.i + 1] = [IdleFrame EXCEPT !.pc = "calc"]]
    /\ main' = [main EXCEPT !.pc = "await"]
    /\ UNCHANGED <<retry_vars, wc, config, cmd_params, outcome, input_vars>>

\* _run_transfers: the awaited _transfer is over; the delay, then the next
\* iteration.  An exception of _transfer leaves the loop and the command.
_run_transfers_resume ==
    /\ main.pc = "await"
    /\ LET r == main.i + 1
           f == frames[r]
       IN /\ transfer_returned(f)
          /\ IF f.pc = "raised"
             THEN main' = [main EXCEPT !.pc = "crashed"] /\ UNCHANGED <<frames, outcome>>
             ELSE /\ frames' = [frames EXCEPT ![r] = IF f.pc = "ret" THEN IdleFrame ELSE f]
                  /\ outcome' = [outcome EXCEPT ![r] =
                        IF f.pc = "ret" /\ f.info # <<>> THEN f.info[Len(f.info)] ELSE @]
                  /\ main' = [main EXCEPT
                        !.pc = "loop",
                        !.i = @ + 1,
                        !.delay_logs = IF delay_applies(config, main.i) THEN @ + 1 ELSE @,
                        !.slept = IF delay_applies(config, main.i) /\ ~cmd_params.emulate
                                  THEN @ + 1 ELSE @]
    /\ UNCHANGED <<retry_vars, wc, config, cmd_params, input_vars>>

\* _run_transfers: the loop is over
_run_transfers_finish ==
    /\ main.pc = "loop"
    /\ main.i >= Len(config.transfers)
    /\ main' = [main EXCEPT !.pc = "finished"]
    /\ UNCHANGED <<retry_vars, wc, config, cmd_params, frames, outcome, input_vars>>

(***************************************************************************)
(* converters.py: to_lamports, sol_to_lamports; transfer.py line 32        *)
(*                                                                         *)
(* A str is a sequence of one-character strings.  A Decimal built from a   *)
(* plain literal is its coefficient (the digits without the point, as an   *)
(* integer) and its number of fraction digits: coef / 10^places.  Signs,   *)
(* exponents and underscores are not part of the drawn inputs.             *)
(***************************************************************************)
Digits == <<"0", "1", "2", "3", "4", "5", "6", "7", "8", "9">>
DigitChars == {Digits[i] : i \in DOMAIN Digits}
digit_value(c) == (CHOOSE i \in DOMAIN Digits : Digits[i] = c) - 1
Whitespace == {" ", "\t"}

\* str.lower()
lower_char(c) ==
    CASE c = "S" -> "s" [] c = "O" -> "o" [] c = "L" -> "l" [] c = "T" -> "t" [] OTHER -> c
lower(s) == [i \in DOMAIN s |-> lower_char(s[i])]

\* str.replace(old, ""): every non-overlapping occurrence, left to right
RECURSIVE remove_all(_, _)
remove_all(s, old) ==
    IF Len(s) < Len(old) THEN s
    ELSE IF SubSeq(s, 1, Len(old)) = old
    THEN remove_all(SubSeq(s, Len(old) + 1, Len(s)), old)
    ELSE <<Head(s)>> \o remove_all(Tail(s), old)

\* str.strip(): whitespace off both ends
RECURSIVE lstrip(_)
lstrip(s) == IF s # <<>> /\ Head(s) \in Whitespace THEN lstrip(Tail(s)) ELSE s
RECURSIVE rstrip(_)
rstrip(s) ==
    IF s # <<>> /\ s[Len(s)] \in Whitespace THEN rstrip(SubSeq(s, 1, Len(s) - 1)) ELSE s
strip(s) == rstrip(lstrip(s))

\* str.endswith(suffix), str.removesuffix(suffix), str.isdigit()
endswith(s, suffix) ==
    /\ Len(s) >= Len(suffix)
    /\ SubSeq(s, Len(s) - Len(suffix) + 1, Len(s)) = suffix
removesuffix(s, suffix) ==
    IF endswith(s, suffix) THEN SubSeq(s, 1, Len(s) - Len(suffix)) ELSE s
isdigit(s) == s # <<>> /\ \A i \in DOMAIN s : s[i] \in DigitChars

\* int(str) / the coefficient of a digit string
RECURSIVE digits_value(_)
digits_value(s) ==
    IF s = <<>> THEN 0
    ELSE 10 * digits_value(SubSeq(s, 1, Len(s) - 1)) + digit_value(s[Len(s)])

Dec(coef, places) == [ok |-> TRUE, coef |-> coef, places |-> places]
InvalidOperation == [ok |-> FALSE, coef |-> 0, places |-> 0]

\* Decimal(str): surrounding whitespace is dropped; digits with at most one
\* point and at least one digit, anything else raises InvalidOperation
Decimal(s) ==
    LET t == strip(s)
        points == {i \in DOMAIN t : t[i] = "."}
        ds == SelectSeq(t, LAMBDA c : c # ".")
    IN IF Cardinality(points) <= 1 /\ isdigit(ds)
       THEN Dec(digits_value(ds),
                IF points = {} THEN 0 ELSE Len(t) - (CHOOSE i \in points : TRUE))
       ELSE InvalidOperation

\* value != value.to_integral_value()
is_integral(d) == d.coef % Pow10(d.places) = 0

\* int(d * 10**k): the product, truncated toward zero when it is not integral
int_scaled(d, k) ==
    IF d.places <= k THEN d.coef * Pow10(k - d.places)
    ELSE d.coef \div Pow10(d.places - k)

\* What a conversion call did: returned an int or raised
Returned(v) == [k |-> "return", v |-> v, exc |-> ""]
Raised(exc) == [k |-> "raise", v |-> 0, exc |-> exc]
NotCalled == [k |-> "none", v |-> 0, exc |-> ""]

\* The argument `value: str | int | Decimal`
StrValue(s) == [type |-> "str", s |-> s, n |-> 0, d |-> Dec(0, 0)]
IntValue(n) == [type |-> "int", s |-> <<>>, n |-> n, d |-> Dec(0, 0)]
DecimalValue(d) == [type |-> "Decimal", s |-> <<>>, n |-> 0, d |-> d]

sol_to_lamports(sol) == int_scaled(sol, 9)

\* to_lamports, the str branch
to_lamports_str(s, decimals) ==
    LET value == strip(remove_all(lower(s), <<" ">>))
    IN IF endswith(value, <<"s", "o", "l">>)
       THEN LET d == Decimal(remove_all(value, <<"s", "o", "l">>))
            IN IF d.ok THEN Returned(sol_to_lamports(d)) ELSE Raised("InvalidOperation")
       ELSE IF endswith(value, <<"t">>)
       THEN IF decimals.k = "None" THEN Raised("ValueError: t without decimals")
            ELSE LET d == Decimal(removesuffix(value, <<"t">>))
                 IN IF d.ok THEN Returned(int_scaled(d, decimals.v))
                    ELSE Raised("InvalidOperation")
       ELSE IF isdigit(value) THEN Returned(digits_value(value))
       ELSE Raised("ValueError: wrong value")

to_lamports(value, decimals) ==
    IF value.type = "int" THEN Returned(value.n)
    ELSE IF value.type = "Decimal"
    THEN IF ~is_integral(value.d) THEN Raised("ValueError: value must be integral number")
         ELSE Returned(int_scaled(value.d, 0))
    ELSE IF value.type = "str" THEN to_lamports_str(value.s, decimals)
    ELSE Raised("ValueError: value has a wrong type")

\* transfer_sol: lamports = int(value * 10**9)
transfer_sol_lamports(value) == int_scaled(value, 9)

\* The drawn str arguments: a plain literal (integer part, fraction), a unit
\* in some letter case, and whitespace before the literal, inside it (before
\* the point), between the literal and the unit, and after the unit.  Left
\* out, being more than TLC's integers hold: 5 sol (5 * 10^9 lamports) and a
\* ten-digit fraction after a non-zero integer part (coefficient over 10^10).
IntParts == {<<"0">>, <<"1">>, <<"5">>}
FracParts ==
    {<<>>, <<".", "5">>,
     <<".", "0", "0", "0", "0", "0", "0", "1">>,
     <<".", "0", "0", "0", "0", "0", "0", "0", "0", "0", "1">>}
SolUnits == {<<"s", "o", "l">>, <<"S", "O", "L">>, <<"S", "o", "l">>}
TokenUnits == {<<"t">>, <<"T">>}
Gaps == {<<>>, <<" ">>, <<"\t">>}
TokenDecimals == {NoneInt, SomeInt(2), SomeInt(6)}
DecimalArgs == {Dec(0, 0), Dec(1, 0), Dec(5, 1), Dec(15, 1), Dec(1, 9)}
SolAmounts == DecimalArgs \cup {Dec(1, 10), Dec(15, 10)}

literal_of(ip, fp) ==
    IF fp = <<>> THEN Dec(digits_value(ip), 0)
    ELSE Dec(digits_value(ip \o Tail(fp)), Len(fp) - 1)
unit_of(u) == IF u \in SolUnits THEN "sol" ELSE IF u \in TokenUnits THEN "t" ELSE ""

IdleConv ==
    [pc |-> "idle", fn |-> "", value |-> IntValue(0), decimals |-> NoneInt, out |-> NotCalled,
     lit |-> Dec(0, 0), unit |-> "", gaps |-> <<>>]

StrArgs ==
    {a \in [ip : IntParts, fp : FracParts, u : SolUnits \cup TokenUnits \cup {<<>>},
            g : Gaps \X Gaps \X Gaps \X Gaps, decimals : TokenDecimals] :
        /\ ~(a.ip = <<"5">> /\ a.u \in SolUnits)
        /\ ~(a.ip # <<"0">> /\ Len(a.fp) > 10)}

StrCalls ==
    {[IdleConv EXCEPT !.pc = "call", !.fn = "to_lamports",
                      !.value = StrValue(a.g[1] \o a.ip \o a.g[2] \o a.fp \o a.g[3]
                                         \o a.u \o a.g[4]),
                      !.decimals = a.decimals,
                      !.lit = literal_of(a.ip, a.fp), !.unit = unit_of(a.u), !.gaps = a.g] :
        a \in StrArgs}

NumberCalls ==
    {[IdleConv EXCEPT !.pc = "call", !.fn = "to_lamports", !.value = v, !.decimals = decimals,
                      !.lit = v.d] :
        v \in {IntValue(n) : n \in {0, 5, 1000000}} \cup {DecimalValue(d) : d \in DecimalArgs},
        decimals \in TokenDecimals}

TransferSolCalls ==
    {[IdleConv EXCEPT !.pc = "call", !.fn = "transfer_sol", !.value = DecimalValue(d),
                      !.lit = d] : d \in SolAmounts}

\* One call of to_lamports
to_lamports_call ==
    /\ conv.pc = "call"
    /\ conv.fn = "to_lamports"
    /\ conv' = [conv EXCEPT !.pc = "returned", !.out = to_lamports(conv.value, conv.decimals)]
    /\ UNCHANGED <<retry_vars, wc, cmd_vars, raw, rpc>>

\* transfer_sol up to line 32: the amount in sol becomes lamports
transfer_sol_lamports_call ==
    /\ conv.pc = "call"
    /\ conv.fn = "transfer_sol"
    /\ conv' = [conv EXCEPT !.pc = "returned",
                            !.out = Returned(transfer_sol_lamports(conv.value.d))]
    /\ UNCHANGED <<retry_vars, wc, cmd_vars, raw, rpc>>

(***************************************************************************)
(* rpc_sync.py: rpc_call, _http_call, get_balance.  A node URL is a        *)
(* sequence of characters (its scheme) ending in one token for the rest.   *)
(* `http` is what http_request_sync returns:                               *)
(*   "transport_error"  an error response (res.is_err())                   *)
(*   "invalid_json"     a body that is not JSON (json_body() is an Err)    *)
(*   "error"            a JSON object with error.message                   *)
(*   "error_and_result" a JSON object with error.message and a result      *)
(*   "blank_error_and_result"  a JSON object with an empty error.message   *)
(*                      and a result                                       *)
(*   "result"           a JSON object with a result that has a "value"     *)
(*   "result_no_value"  a JSON object with a result without "value"        *)
(*   "empty"            a JSON object with neither                         *)
(***************************************************************************)
HttpOutcomes ==
    {"transport_error", "invalid_json", "error", "error_and_result", "blank_error_and_result",
     "result", "result_no_value", "empty"}
NodeUrls ==
    {<<"h", "t", "t", "p", "://n1">>, <<"h", "t", "t", "p", "s", "://n1">>,
     <<"w", "s", "://n1">>, <<"w", "s", "s", "://n1">>}

\* str.startswith(prefix)
startswith(s, prefix) == Len(s) >= Len(prefix) /\ SubSeq(s, 1, Len(prefix)) = prefix

Returns(res) == [raised |-> FALSE, exc |-> "", res |-> res]
Raises(exc) == [raised |-> TRUE, exc |-> exc, res |-> Err("")]

\* res.is_err()
response_is_err(http) == http = "transport_error"
\* res.json_body() is an Err: unwrap("invalid_json") raises
json_body_is_err(http) == http = "invalid_json"
\* pydash.get(json_body, "error.message"); "" also stands for an absent one
error_message(http) == IF http \in {"error", "error_and_result"} THEN "message" ELSE ""
\* "result" in json_body, and json_body["result"]
has_result(http) ==
    http \in {"error_and_result", "blank_error_and_result", "result", "result_no_value"}
result_of(http) == IF http = "result_no_value" THEN "result_no_value" ELSE "result"

_http_call_result_first(node, http, proxy) ==
    IF response_is_err(http) THEN Err("transport_error")
    ELSE IF json_body_is_err(http) THEN Err("invalid_json")
    ELSE IF has_result(http) THEN Ok(result_of(http))
    ELSE IF error_message(http) # "" THEN Err("service_error")
    ELSE Err("unknown_response")

_http_call(node, http, proxy) ==
    IF response_is_err(http) THEN Err("transport_error")
    ELSE IF json_body_is_err(http) THEN Err("invalid_json")
    ELSE IF error_message(http) # "" THEN Err("service_error")
    ELSE IF has_result(http) THEN Ok(result_of(http))
    ELSE Err("unknown_response")

rpc_call(node, http, proxy) ==
    IF startswith(node, <<"h", "t", "t", "p">>) THEN Returns(_http_call(node, http, proxy))
    ELSE Raises("NotImplementedError: ws is not implemented")

\* get_balance: rpc_call(...).map(lambda r: r["value"]).  Result.map is
\* mm_result's: when the lambda raises (no "value" in the result) the call
\* either returns an Err or lets the KeyError through.
get_balance(node, http, proxy) ==
    LET called == rpc_call(node, http, proxy)
    IN IF called.raised \/ is_err(called.res) THEN {called}
       ELSE IF called.res.v = "result" THEN {Returns(Ok("value"))}
       ELSE {Returns(Err("map_exception")), Raises("KeyError: value")}

IdleRpc ==
    [pc |-> "idle", fn |-> "", node |-> <<>>, proxy |-> None, http |-> "", out |-> Returns(Err(""))]

RpcCalls ==
    {[IdleRpc EXCEPT !.pc = "call", !.fn = fn, !.node = node, !.proxy = proxy, !.http = http] :
        fn \in {"rpc_call", "get_balance"}, node \in NodeUrls, proxy \in {None, "http://p1"},
        http \in HttpOutcomes}

\* One call of rpc_call
rpc_call_step ==
    /\ rpc.pc = "call"
    /\ rpc.fn = "rpc_call"
    /\ LET out == rpc_call(rpc.node, rpc.http, rpc.proxy)
       IN rpc' = [rpc EXCEPT !.pc = IF out.raised THEN "raised" ELSE "returned", !.out = out]
    /\ UNCHANGED <<retry_vars, wc, cmd_vars, raw, conv>>

\* One call of get_balance
get_balance_step ==
    /\ rpc.pc = "call"
    /\ rpc.fn = "get_balance"
    /\ \E out \in get_balance(rpc.node, rpc.http, rpc.proxy) :
        rpc' = [rpc EXCEPT !.pc = IF out.raised THEN "raised" ELSE "returned", !.out = out]
    /\ UNCHANGED <<retry_vars, wc, cmd_vars, raw, conv>>

(***************************************************************************)
(* token_async.py: get_token_balance.  `reply` is what the body of the try *)
(* meets:                                                                  *)
(*   "balance"                   get_token_account_balance returned the    *)
(*                               balance (res.value.amount)                *)
(*   "message_no_account"        it returned an InvalidParamsMessage with  *)
(*                               "could not find account"                  *)
(*   "message_other"             it returned another InvalidParamsMessage  *)
(*                               (res.value then raises AttributeError)    *)
(*   "rpc_exception_no_account"  RPCException with that text               *)
(*   "rpc_exception_other"       any other RPCException                    *)
(*   "http_status_error"         httpx.HTTPStatusError                     *)
(*   "solana_rpc_exception"      SolanaRpcException                        *)
(*   "exception"                 any other Exception (a bad address in     *)
(*                               Pubkey.from_string, a bad amount)         *)
(***************************************************************************)
TokenReplies ==
    {"balance", "message_no_account", "message_other", "rpc_exception_no_account",
     "rpc_exception_other", "http_status_error", "solana_rpc_exception", "exception"}
TokenAmounts == {0, 1, 1000000}

\* "could not find account" in res.message / in str(e)
could_not_find_account(reply) == reply \in {"message_no_account", "rpc_exception_no_account"}

get_token_balance_missing_is_error(node, reply, amount, proxy) ==
    IF reply = "balance" THEN Returns(OkInt(amount))
    ELSE IF reply \in {"message_no_account", "message_other"} THEN Returns(ErrInt("exception"))
    ELSE IF reply \in {"rpc_exception_no_account", "rpc_exception_other"}
        THEN Returns(ErrInt("error"))
    ELSE IF reply = "http_status_error" THEN Returns(ErrInt("http error"))
    ELSE IF reply = "solana_rpc_exception" THEN Returns(ErrInt("error_msg"))
    ELSE Returns(ErrInt("exception"))

get_token_balance(node, reply, amount, proxy) ==
    IF reply = "balance" THEN Returns(OkInt(amount))
    ELSE IF reply \in {"message_no_account", "message_other"}
        THEN IF could_not_find_account(reply) THEN Returns(OkInt(0))
             ELSE Returns(ErrInt("exception"))
    ELSE IF reply \in {"rpc_exception_no_account", "rpc_exception_other"}
        THEN IF could_not_find_account(reply) THEN Returns(OkInt(0))
             ELSE Returns(ErrInt("error"))
    ELSE IF reply = "http_status_error" THEN Returns(ErrInt("http error"))
    ELSE IF reply = "solana_rpc_exception" THEN Returns(ErrInt("error_msg"))
    ELSE Returns(ErrInt("exception"))

TokenCalls ==
    [pc : {"call"}, fn : {"get_token_balance"}, node : {"http://n1", "http://n2"},
     proxy : {None, "http://p1"}, reply : TokenReplies, amount : TokenAmounts,
     out : {Returns(ErrInt(""))}]

\* One call of get_token_balance
get_token_balance_step ==
    /\ rpc.pc = "call"
    /\ rpc.fn = "get_token_balance"
    /\ LET out == get_token_balance(rpc.node, rpc.reply, rpc.amount, rpc.proxy)
       IN rpc' = [rpc EXCEPT !.pc = IF out.raised THEN "raised" ELSE "returned", !.out = out]
    /\ UNCHANGED <<retry_vars, wc, cmd_vars, raw, conv>>

(***************************************************************************)
(* cli/cmd/transfer_sol_cmd.py: run.  In this command `config` is the      *)
(* Config of transfer-sol (its recipients), `args` the arguments every     *)
(* call of transfer_sol_with_retries gets (retries is the default 3),      *)
(* `calls` the calls of the executor made so far, and `outcome` the dict   *)
(* `result`, from recipient to res.ok_or_err().                            *)
(***************************************************************************)
MaxRecipients == 3
RecipientPool == {"to1", "to2"}
RecipientLists ==
    UNION {[1..n -> RecipientPool] : n \in 0..MaxRecipients}

\* What one call of transfer_sol_with_retries with retries >= 1 ends in: the
\* exception of get_node or get_keypair, the first Ok, or the last Err
transfer_sol_with_retries_outcomes(a) ==
    IF IndexError \in get_node(a.nodes) THEN {Raises(IndexError)}
    ELSE {IF t.raised THEN Raises(t.res.v) ELSE Returns(t.res) :
            t \in {transfer_sol(node, proxy, a.key, net) :
                        node \in get_node(a.nodes), proxy \in get_proxy(a.proxies),
                        net \in NetOutcomes}}

\* result[recipient] = value
dict_set(d, k, v) == [x \in DOMAIN d \cup {k} |-> IF x = k THEN v ELSE d[x]]

\* run up to the loop: cli_utils.print_config_and_exit, result = {}
transfer_sol_cmd_run ==
    /\ main.pc = "run"
    /\ main' = [main EXCEPT !.pc = IF cmd_params.print_config_and_exit THEN "exit" ELSE "loop"]
    /\ UNCHANGED <<args, rx, calls, wc, config, cmd_params, frames, outcome, input_vars>>

\* One iteration of `for recipient in config.recipients`
transfer_sol_cmd_iter ==
    /\ main.pc = "loop"
    /\ main.i < Len(config.recipients)
    /\ LET recipient == config.recipients[main.i + 1]
       IN \E out \in transfer_sol_with_retries_outcomes(args) :
            /\ calls' = Append(calls, [to_address |-> recipient, out |-> out])
            /\ IF out.raised
               THEN main' = [main EXCEPT !.pc = "raised"] /\ UNCHANGED outcome
               ELSE /\ outcome' = dict_set(outcome, recipient, out.res.v)
                    /\ main' = [main EXCEPT !.i = @ + 1]
    /\ UNCHANGED <<args, rx, wc, config, cmd_params, frames, input_vars>>

\* The loop is over: print_console(result, print_json=True)
transfer_sol_cmd_print ==
    /\ main.pc = "loop"
    /\ main.i >= Len(config.recipients)
    /\ main' = [main EXCEPT !.pc = "printed"]
    /\ UNCHANGED <<args, rx, calls, wc, config, cmd_params, frames, outcome, input_vars>>

(***************************************************************************)
(* Specifications                                                          *)
(***************************************************************************)
IdleArgs == [nodes |-> NoneArg, proxies |-> NoneArg, key |-> "valid", retries |-> 0]
IdleRx == [pc |-> "idle", k |-> 0, res |-> Err("not started yet")]

IdleConfig ==
    [nodes |-> <<"http://n1">>, proxies |-> <<>>, transfers |-> <<>>, private_keys |-> {},
     token |-> None, token_decimals |-> -1, default_value |-> None,
     value_min_limit |-> NoExpr, delay |-> NoExpr]
IdleParams ==
    [print_config_and_exit |-> FALSE, print_transfers |-> FALSE, print_balances |-> FALSE,
     no_confirmation |-> FALSE, emulate |-> FALSE]
IdleMain == [pc |-> "idle", i |-> 0, delay_logs |-> 0, slept |-> 0]

IdleRaw == IdleConfig
InputsIdle == raw = IdleRaw /\ conv = IdleConv /\ rpc = IdleRpc

CmdIdle ==
    /\ config = IdleConfig
    /\ cmd_params = IdleParams
    /\ main = IdleMain
    /\ frames = <<>>
    /\ outcome = <<>>

InitRetry ==
    /\ args \in [nodes : NodeArgs, proxies : ProxyArgs, key : KeyKinds, retries : 0..MaxRetries]
    /\ rx = InitRetryLocals
    /\ calls = <<>>
    /\ wc = IdleWc
    /\ CmdIdle
    /\ InputsIdle

NextRetry == transfer_sol_with_retries_iter \/ transfer_sol_with_retries_exhausted

SpecRetry == InitRetry /\ [][NextRetry]_vars

InitPoller ==
    /\ args = IdleArgs
    /\ rx = IdleRx
    /\ calls = <<>>
    /\ wc = StartWc
    /\ CmdIdle
    /\ InputsIdle

NextPoller == wait_confirmation_step

SpecPoller == InitPoller /\ [][NextPoller]_vars
FairPoller == SpecPoller /\ WF_vars(NextPoller)

\* The transfer command: a Config that passed load_or_exit (every route has a
\* value and a key) and the command-line flags.
Configs ==
    {[nodes |-> <<"http://n1", "http://n2">>,
      proxies |-> <<>>,
      transfers |-> SubSeq(RoutePool, 1, n),
      private_keys |-> {RoutePool[j].from_address : j \in 1..n},
      token |-> token,
      token_decimals |-> -1,
      default_value |-> None,
      value_min_limit |-> IF limit THEN Literal(1, IF token = None THEN "sol" ELSE "t") ELSE NoExpr,
      delay |-> IF delay THEN Literal(2, "") ELSE NoExpr] :
        n \in 1..MaxRoutes, token \in {None, "mint"}, limit \in BOOLEAN, delay \in BOOLEAN}

Init ==
    /\ args = IdleArgs
    /\ rx = IdleRx
    /\ calls = <<>>
    /\ wc = IdleWc
    /\ config \in Configs
    /\ cmd_params \in [print_config_and_exit : BOOLEAN, print_transfers : BOOLEAN,
                        print_balances : BOOLEAN, no_confirmation : BOOLEAN, emulate : BOOLEAN]
    /\ main = [IdleMain EXCEPT !.pc = "run"]
    /\ frames = [r \in DOMAIN config.transfers |-> IdleFrame]
    /\ outcome = [r \in DOMAIN config.transfers |-> "pending"]
    /\ InputsIdle

Next ==
    \/ run
    \/ _run_transfers_call
    \/ _run_transfers_resume
    \/ _run_transfers_finish
    \/ \E r \in Routes : _transfer_calc_value(r)
    \/ \E r \in Routes : _send_tx_attempt(r)
    \/ \E r \in Routes : _transfer_wait_confirmation(r)

Spec == Init /\ [][Next]_vars

\* The transfer command from the load of the configuration on: the
\* configuration as read may lack keys or values, or hold a limit in the
\* unit of the other kind
RawRoutes(n) ==
    {[j \in 1..n |-> [RoutePool[j] EXCEPT !.value = IF j \in unset THEN "" ELSE @]] :
        unset \in SUBSET (1..n)}

RawConfigs ==
    {[nodes |-> <<"http://n1", "http://n2">>,
      proxies |-> <<>>,
      transfers |-> c.transfers,
      private_keys |-> c.private_keys,
      token |-> c.token,
      token_decimals |-> -1,
      default_value |-> c.default_value,
      value_min_limit |-> c.value_min_limit,
      delay |-> NoExpr] :
        c \in UNION {[transfers : RawRoutes(n),
                      private_keys : SUBSET {RoutePool[j].from_address : j \in 1..n},
                      token : {None, "mint"},
                      default_value : {None, "balance"},
                      value_min_limit : {NoExpr, Literal(1, "sol"), Literal(1, "t")}] :
                        n \in 1..MaxLoadRoutes}}

InitLoad ==
    /\ args = IdleArgs
    /\ rx = IdleRx
    /\ calls = <<>>
    /\ wc = IdleWc
    /\ raw \in RawConfigs
    /\ conv = IdleConv
    /\ rpc = IdleRpc
    /\ config = IdleConfig
    /\ cmd_params \in {[IdleParams EXCEPT !.no_confirmation = nc, !.emulate = em] :
                            nc \in BOOLEAN, em \in BOOLEAN}
    /\ main = [IdleMain EXCEPT !.pc = "load"]
    /\ frames = <<>>
    /\ outcome = <<>>

NextLoad == load_or_exit \/ Next

SpecLoad == InitLoad /\ [][NextLoad]_vars

\* One conversion call on drawn arguments
InitConv ==
    /\ args = IdleArgs
    /\ rx = IdleRx
    /\ calls = <<>>
    /\ wc = IdleWc
    /\ CmdIdle
    /\ raw = IdleRaw
    /\ rpc = IdleRpc
    /\ conv \in StrCalls \cup NumberCalls \cup TransferSolCalls

NextConv == to_lamports_call \/ transfer_sol_lamports_call

SpecConv == InitConv /\ [][NextConv]_vars

\* One call of the RPC layer on drawn arguments and a drawn HTTP outcome
InitRpc ==
    /\ args = IdleArgs
    /\ rx = IdleRx
    /\ calls = <<>>
    /\ wc = IdleWc
    /\ CmdIdle
    /\ raw = IdleRaw
    /\ conv = IdleConv
    /\ rpc \in RpcCalls

NextRpc == rpc_call_step \/ get_balance_step

SpecRpc == InitRpc /\ [][NextRpc]_vars

\* One call of get_token_balance on drawn arguments and a drawn reply
InitToken ==
    /\ args = IdleArgs
    /\ rx = IdleRx
    /\ calls = <<>>
    /\ wc = IdleWc
    /\ CmdIdle
    /\ raw = IdleRaw
    /\ conv = IdleConv
    /\ rpc \in TokenCalls

NextToken == get_token_balance_step

SpecToken == InitToken /\ [][NextToken]_vars

\* The transfer-sol command on a drawn recipients list, key and proxies
InitSolCmd ==
    /\ args \in [nodes : {ListArg(<<"http://n1", "http://n2">>)},
                  proxies : {NoneArg, ListArg(<<"http://p1">>)},
                  key : KeyKinds, retries : {3}]
    /\ rx = IdleRx
    /\ calls = <<>>
    /\ wc = IdleWc
    /\ config \in [recipients : RecipientLists]
    /\ cmd_params \in [print_config_and_exit : BOOLEAN]
    /\ main = [pc |-> "run", i |-> 0]
    /\ frames = <<>>
    /\ outcome = <<>>
    /\ InputsIdle

NextSolCmd == transfer_sol_cmd_run \/ transfer_sol_cmd_iter \/ transfer_sol_cmd_print

SpecSolCmd == InitSolCmd /\ [][NextSolCmd]_vars

(***************************************************************************)
(* Claims about transfer_sol_with_retries (SpecRetry)                      *)
(***************************************************************************)
LastCall == calls[Len(calls)]

\* C2: for every attempts >= 1 the retry executor invokes the operation at most
\* `attempts` times and returns immediately on the first Ok: every invocation
\* before the last one returned Err, and once an invocation returned Ok the
\* executor has returned that Ok.
C2_AtMostAttemptsStopOnOk ==
    args.retries >= 1 =>
        /\ Len(calls) <= args.retries
        /\ \A j \in 1..(Len(calls) - 1) : is_err(calls[j].res)
        /\ (calls # <<>> /\ is_ok(LastCall.res)) => (rx.pc = "returned" /\ rx.res = LastCall.res)

C2_Witness ==
    /\ args.retries = 3
    /\ Len(calls) = 2
    /\ is_err(calls[1].res)
    /\ is_ok(calls[2].res)
    /\ rx.pc = "returned"

\* C7: when the executor returns after every attempt failed, the value it
\* returns is the result of the final attempt, as transfer_sol produced it.
C7_ReturnsLastError ==
    (/\ rx.pc = "returned"
     /\ calls # <<>>
     /\ \A j \in DOMAIN calls : is_err(calls[j].res))
        => rx.res = LastCall.res

C7_Witness ==
    /\ rx.pc = "returned"
    /\ Len(calls) = 3
    /\ \A j \in DOMAIN calls : is_err(calls[j].res)
    /\ calls[1].res # calls[3].res
    /\ calls[2].res # calls[3].res
    /\ rx.res = calls[3].res

SamePair(a, b) == a.node = b.node /\ a.proxy = b.proxy

\* C8 as stated: with more than one node configured, the attempt that follows a
\* failed attempt is made against a different node/proxy pair.
C8_DifferentPairAfterFailure ==
    \A j \in 1..(Len(calls) - 1) :
        (args.nodes.kind = "list" /\ Cardinality(Members(args.nodes)) > 1 /\ is_err(calls[j].res))
            => ~SamePair(calls[j], calls[j + 1])

ConfiguredNodes(nodes) == IF nodes.kind = "none" THEN {DEFAULT_MAINNET_RPC} ELSE Members(nodes)
ConfiguredProxies(proxies) == IF Members(proxies) = {} THEN {None} ELSE Members(proxies)

\* C8 amended: each attempt picks its node and its proxy afresh from the
\* configured sets (with replacement): every attempt is made against a
\* configured node and a configured proxy (no proxy exactly when none is
\* configured); the pair may be the one that just failed.
C8_EveryAttemptPicksConfiguredPair ==
    \A j \in DOMAIN calls :
        /\ calls[j].node \in ConfiguredNodes(args.nodes)
        /\ calls[j].proxy \in ConfiguredProxies(args.proxies)

C8_Witness ==
    /\ Cardinality(Members(args.nodes)) > 1
    /\ Cardinality(Members(args.proxies)) > 1
    /\ Len(calls) = 3
    /\ is_err(calls[1].res)
    /\ SamePair(calls[1], calls[2])
    /\ is_err(calls[2].res)
    /\ ~SamePair(calls[2], calls[3])

(***************************************************************************)
(* Claims about wait_confirmation (SpecPoller, FairPoller)                 *)
(***************************************************************************)
\* C9: the confirmation poller always terminates: it returns eventually, it
\* never makes more than 31 status queries, and when no query confirmed it
\* returns false with its budget of 30 exhausted.
C9_PollerTerminates ==
    /\ <>(wc.pc = "returned")
    /\ [](wc.queries <= ConfirmationBudget + 1)
    /\ []((wc.pc = "returned" /\ wc.last \in {"exception", "null"})
            => (wc.result = FALSE /\ wc.count = ConfirmationBudget + 1))

C9_Witness ==
    /\ wc.pc = "returned"
    /\ wc.last = "exception"
    /\ wc.result = FALSE
    /\ wc.queries = 31

\* C10: the poller returns true on the first status query that reports a slot:
\* that query is the last one, so if it is the k-th the poller has made exactly
\* k queries and k-1 sleeps, k <= 31, and it does nothing more.
C10_ReturnsTrueOnFirstConfirmation ==
    /\ wc.last \in {"included", "included_err"} =>
        /\ wc.pc = "returned"
        /\ wc.result = TRUE
        /\ wc.queries = wc.count + 1
        /\ wc.sleeps = wc.queries - 1
        /\ wc.queries <= ConfirmationBudget + 1
    /\ wc.pc = "returned" => ~ENABLED wait_confirmation_step

C10_Witness ==
    /\ wc.pc = "returned"
    /\ wc.result = TRUE
    /\ wc.last = "included"
    /\ wc.queries = 5
    /\ wc.sleeps = 4

(***************************************************************************)
(* Claims about the transfer command (Spec)                                *)
(***************************************************************************)
Active(r) == frames[r].pc \in {"calc", "send", "confirm"}
LastInfo(f) == IF f.info = <<>> THEN "none" ELSE f.info[Len(f.info)]

\* C1: a route whose resolved value is below the configured minimum-value
\* limit never reaches submission: _transfer returns before _send_tx, so no
\* submission attempt is made for it.
C1_BelowMinNeverSubmitted ==
    \A r \in Routes :
        (frames[r].value.k = "int" /\ below_min_limit(frames[r].value, config))
            => (frames[r].pc \notin {"send", "confirm"} /\ frames[r].attempts = 0)

\* C3: I/O-time errors are route-scoped: no failure of a route (value
\* resolution, submission after all its attempts, confirmation) ends the
\* command; after a failed route the loop goes on to the next route, and the
\* command finishes only when every route was processed.
FailedOutcomes == {"calc value error", "tx error", "UNKNOWN"}

C3_ErrorsAreRouteScoped ==
    /\ main.pc # "crashed"
    /\ \A r \in Routes : frames[r].pc # "raised"
    /\ \A r \in Routes :
        outcome[r] \in FailedOutcomes =>
            /\ main.pc \in {"loop", "await", "finished"}
            /\ main.i >= r
            /\ (main.pc = "loop" /\ main.i < Len(config.transfers)) => ENABLED _run_transfers_call
    /\ main.pc = "finished" => \A r \in Routes : outcome[r] # "pending"

C3_Witness ==
    /\ main.pc = "finished"
    /\ Len(config.transfers) = 3
    /\ outcome[1] = "tx error"
    /\ outcome[2] = "calc value error"
    /\ outcome[3] = "OK"

\* C4: routes are processed one at a time in declared order: a route has a
\* balance lookup, submission or confirmation query under way only while
\* _run_transfers awaits that very route, every earlier route is over and no
\* later route has started.
C4_RoutesSequential ==
    \A r \in Routes :
        /\ Active(r) => (main.pc = "await" /\ r = main.i + 1)
        /\ frames[r].pc # "idle" =>
            \A s \in Routes :
                /\ s < r => (outcome[s] # "pending" /\ frames[s].pc = "idle")
                /\ s > r => (outcome[s] = "pending" /\ frames[s].pc = "idle")

C4_Witness ==
    /\ Len(config.transfers) = 3
    /\ frames[2].pc = "confirm"
    /\ frames[2].wc.queries = 2
    /\ outcome[1] = "OK"
    /\ frames[3].pc = "idle"

\* C5: when value resolution returns Err the route is over with nothing
\* submitted: no submission attempt, no confirmation query, no signature,
\* and the calc-value error is the only line logged.
C5_ValueErrorNeverSubmits ==
    \A r \in Routes :
        frames[r].value.k = "None" =>
            /\ frames[r].pc = "ret"
            /\ frames[r].attempts = 0
            /\ frames[r].signature = None
            /\ frames[r].wc = IdleWc
            /\ frames[r].info = <<"calc value error">>

C5_Witness ==
    \E r \in Routes :
        /\ r = 2
        /\ ~cmd_params.emulate
        /\ frames[r].value.k = "None"
        /\ frames[r].pc = "ret"

\* C6: when submission fails after its 3 attempts the route is over as failed
\* (tx error logged) and wait_confirmation is never run for it: the poller
\* runs only for a route that holds a signature.
C6_SubmissionFailureSkipsConfirmation ==
    \A r \in Routes :
        /\ frames[r].signature = None =>
            (frames[r].pc # "confirm" /\ frames[r].wc = IdleWc /\ frames[r].status = "none")
        /\ (frames[r].attempts = SendAttempts /\ frames[r].signature = None) =>
            (frames[r].pc = "ret" /\ LastInfo(frames[r]) = "tx error")

C6_Witness ==
    \E r \in Routes :
        /\ ~cmd_params.no_confirmation
        /\ frames[r].pc = "ret"
        /\ frames[r].attempts = SendAttempts
        /\ frames[r].signature = None
        /\ LastInfo(frames[r]) = "tx error"

(***************************************************************************)
(* C11: an exception raised by a confirmation status query is handled      *)
(* inside wait_confirmation as "not yet confirmed": the iteration logs     *)
(* the error, the poller does not raise, one unit of the budget is used    *)
(* (one sleep, count + 1), and the loop goes on unless the budget is over. *)
(***************************************************************************)
C11_QueryExceptionIsCaught ==
    [][(wc' # wc /\ wc'.last = "exception") =>
            /\ wc'.pc \in {"loop", "returned"}
            /\ wc'.emitted # <<>>
            /\ wc'.emitted[1] = "can't get confirmation, error"
            /\ wc'.count = wc.count + 1
            /\ wc'.sleeps = wc.sleeps + 1
            /\ (wc'.pc = "returned" => ~wc'.result /\ over_budget(wc'.count))
            /\ (wc'.pc = "loop" => ~over_budget(wc'.count))]_vars

C11_Witness ==
    /\ wc.pc = "loop"
    /\ wc.last = "exception"
    /\ wc.count = 3
    /\ wc.emitted = <<"can't get confirmation, error">>

(***************************************************************************)
(* C12: a transaction that was included and failed on-chain is treated by  *)
(* the poller like one that is not visible: a poll whose last reply was    *)
(* either of the two returns false, and the route is reported UNKNOWN,     *)
(* never OK.                                                               *)
(***************************************************************************)
C12_FailedOnChainNeverOk ==
    \A r \in Routes :
        (frames[r].wc.pc = "returned" /\ frames[r].wc.last \in {"included_err", "null"}) =>
            /\ ~frames[r].wc.result
            /\ frames[r].status = "UNKNOWN"
            /\ LastInfo(frames[r]) = "UNKNOWN"

(***************************************************************************)
(* C13: every route that has returned has logged exactly one info line,    *)
(* whatever its outcome (value error, below minimum, emulation, submission *)
(* failure, confirmed, unconfirmed).                                       *)
(***************************************************************************)
C13_OneInfoLinePerRoute ==
    \A r \in Routes : frames[r].pc = "ret" => Len(frames[r].info) = 1

(***************************************************************************)
(* C14: a route whose submission returned a signature is reported OK       *)
(* exactly when polling was requested and wait_confirmation returned true; *)
(* when polling was requested and timed out it is reported UNKNOWN; the    *)
(* reported status is always OK or UNKNOWN.                                *)
(***************************************************************************)
C14_OkIffPolledAndConfirmed ==
    \A r \in Routes :
        (frames[r].pc = "ret" /\ frames[r].signature # None) =>
            /\ LastInfo(frames[r]) = frames[r].status
            /\ frames[r].status \in {"OK", "UNKNOWN"}
            /\ frames[r].status = "OK" <=>
                    /\ ~cmd_params.no_confirmation
                    /\ frames[r].wc.pc = "returned"
                    /\ frames[r].wc.result
            /\ (~cmd_params.no_confirmation /\ ~frames[r].wc.result) =>
                    /\ frames[r].wc.pc = "returned"
                    /\ over_budget(frames[r].wc.count)
                    /\ frames[r].status = "UNKNOWN"

C14_Witness ==
    \E r \in Routes :
        /\ frames[r].pc = "ret"
        /\ frames[r].signature # None
        /\ frames[r].wc.pc = "returned"
        /\ ~frames[r].wc.result
        /\ frames[r].status = "UNKNOWN"
        /\ outcome[1] = "OK"

(***************************************************************************)
(* C15: with no_confirmation set wait_confirmation is never called: a      *)
(* route whose submission returned a signature returns right after the     *)
(* submission, reported UNKNOWN.                                           *)
(***************************************************************************)
C15_NoConfirmationSkipsPolling ==
    cmd_params.no_confirmation =>
        \A r \in Routes :
            /\ frames[r].wc = IdleWc
            /\ frames[r].pc # "confirm"
            /\ frames[r].signature # None =>
                    /\ frames[r].pc = "ret"
                    /\ frames[r].status = "UNKNOWN"
                    /\ LastInfo(frames[r]) = "UNKNOWN"

C15_Witness ==
    /\ cmd_params.no_confirmation
    /\ \E r \in Routes :
        /\ frames[r].pc = "ret"
        /\ frames[r].signature # None
        /\ frames[r].attempts = 2
        /\ LastInfo(frames[r]) = "UNKNOWN"

\* The number of inter-route delays due once `done` of the routes are over
DelaysDue(done) ==
    IF config.delay.k = "None" THEN 0
    ELSE IF done < Len(config.transfers) THEN done
    ELSE Len(config.transfers) - 1

(***************************************************************************)
(* C16 as stated: with a delay configured the run has slept once after     *)
(* each finished route except the last, so n-1 times over n routes; with   *)
(* no delay configured it never sleeps.                                    *)
(***************************************************************************)
C16_SleepsBetweenRoutes ==
    main.slept = DelaysDue(main.i)

(***************************************************************************)
(* C16, amended: the delay step is taken (the delay is evaluated and       *)
(* logged) once after each finished route except the last, whatever the    *)
(* route's outcome, never before the first route and never after the last, *)
(* and never when no delay is configured; the run sleeps at each of these  *)
(* steps exactly when it is not in emulate mode, and not at all in emulate *)
(* mode.                                                                   *)
(***************************************************************************)
C16_DelayBetweenRoutes ==
    /\ main.delay_logs = DelaysDue(main.i)
    /\ main.slept = IF cmd_params.emulate THEN 0 ELSE main.delay_logs
    /\ main.pc = "finished" => main.i = Len(config.transfers)

C16_Witness ==
    /\ main.pc = "finished"
    /\ Len(config.transfers) = 3
    /\ config.delay.k # "None"
    /\ ~cmd_params.emulate
    /\ main.slept = 2
    /\ outcome[1] = "tx error"
    /\ outcome[3] = "calc value error"

(***************************************************************************)
(* C17: the amount handed to submission is never negative: a route whose   *)
(* value resolved to a negative amount does not reach _send_tx.            *)
(***************************************************************************)
C17_SubmittedAmountNonNegative ==
    \A r \in Routes :
        (frames[r].pc = "send" \/ frames[r].attempts > 0) =>
            /\ frames[r].value.k = "int"
            /\ frames[r].value.v >= 0

(***************************************************************************)
(* Claims about the converters (SpecConv)                                  *)
(***************************************************************************)
\* lit * 10^k is an integer / is the integer v
Integral(lit, k) ==
    IF lit.places <= k THEN TRUE ELSE lit.coef % Pow10(lit.places - k) = 0
Exact(lit, k, v) ==
    IF lit.places <= k THEN v = lit.coef * Pow10(k - lit.places)
    ELSE v * Pow10(lit.places - k) = lit.coef

(***************************************************************************)
(* C18: a literal whose amount is not an integral number of smallest units *)
(* (more fraction digits than the unit has decimals) is rejected with an   *)
(* error by the conversion, never returned as a truncated integer.         *)
(***************************************************************************)
C18_NonIntegralRejected ==
    conv.pc = "returned" =>
        /\ (conv.fn = "to_lamports" /\ conv.unit = "sol" /\ ~Integral(conv.lit, 9)) =>
                conv.out.k = "raise"
        /\ (conv.fn = "to_lamports" /\ conv.unit = "t" /\ conv.decimals.k = "int"
                /\ ~Integral(conv.lit, conv.decimals.v)) =>
                conv.out.k = "raise"
        /\ (conv.fn = "transfer_sol" /\ ~Integral(conv.lit, 9)) =>
                conv.out.k = "raise"

(***************************************************************************)
(* C19: 'd sol' converts to d * 10^9 and 'd t' with k token decimals to    *)
(* d * 10^k, whatever the letter case of the unit and the whitespace in    *)
(* the string; 'd t' with no decimals given is an error.                   *)
(***************************************************************************)
C19_LiteralScaledByUnit ==
    (conv.pc = "returned" /\ conv.fn = "to_lamports" /\ conv.value.type = "str") =>
        /\ conv.unit = "sol" =>
                (conv.out.k = "return" /\ Exact(conv.lit, 9, conv.out.v))
        /\ (conv.unit = "t" /\ conv.decimals.k = "int") =>
                (conv.out.k = "return" /\ Exact(conv.lit, conv.decimals.v, conv.out.v))
        /\ (conv.unit = "t" /\ conv.decimals.k = "None") =>
                conv.out = Raised("ValueError: t without decimals")

(***************************************************************************)
(* Claims about the load of the configuration (SpecLoad)                   *)
(***************************************************************************)
MissingKey ==
    \E j \in DOMAIN raw.transfers : raw.transfers[j].from_address \notin raw.private_keys

(***************************************************************************)
(* C20: a configuration in which some route's from_address has no key in   *)
(* the key map is rejected by the load: the run ends there, no Config is   *)
(* produced, no route is processed and nothing is submitted.               *)
(***************************************************************************)
C20_MissingKeyRejectedAtLoad ==
    MissingKey =>
        /\ main.pc \in {"load", "config_error"}
        /\ main.i = 0
        /\ config = IdleConfig
        /\ frames = <<>>
        /\ outcome = <<>>

C20_Witness ==
    /\ MissingKey
    /\ main.pc = "config_error"
    /\ Len(raw.transfers) = 2
    /\ raw.private_keys = {"from1"}
    /\ \A j \in DOMAIN raw.transfers : ~value_not_set(raw.transfers[j].value)

\* The load is over and produced a Config
Loaded == main.pc \notin {"load", "config_error"}

(***************************************************************************)
(* C21: after a successful validation every route has a value: a route     *)
(* read without a value holds the default value, a route read with a value *)
(* holds that value, and nothing else of the route has changed; a          *)
(* configuration with a value-less route and no default value is rejected. *)
(***************************************************************************)
C21_EveryRouteHasValueAfterLoad ==
    /\ Loaded =>
        /\ DOMAIN config.transfers = DOMAIN raw.transfers
        /\ \A j \in DOMAIN raw.transfers :
            /\ ~value_not_set(config.transfers[j].value)
            /\ config.transfers[j].value =
                    IF value_not_set(raw.transfers[j].value) THEN raw.default_value
                    ELSE raw.transfers[j].value
            /\ config.transfers[j].from_address = raw.transfers[j].from_address
            /\ config.transfers[j].to_address = raw.transfers[j].to_address
    /\ (raw.default_value = None
            /\ \E j \in DOMAIN raw.transfers : value_not_set(raw.transfers[j].value)) =>
        ~Loaded

C21_Witness ==
    /\ Loaded
    /\ Len(raw.transfers) = 2
    /\ raw.transfers[1].value = ""
    /\ raw.transfers[2].value = "balance*0.5"
    /\ config.transfers[1].value = "balance"
    /\ config.transfers[2].value = "balance*0.5"

(***************************************************************************)
(* C22: for a non-empty node set get_node does not raise and returns a     *)
(* member of the set; get_proxy does not raise and returns a member of the *)
(* proxy set, or None exactly when the proxy set is empty or absent.  Both *)
(* as functions of the arguments and in every attempt that was made.       *)
(***************************************************************************)
C22_SelectionReturnsMember ==
    /\ Members(args.nodes) # {} =>
        /\ get_node(args.nodes) \subseteq Members(args.nodes)
        /\ \A j \in DOMAIN calls : calls[j].node \in Members(args.nodes)
        /\ rx.pc = "raised" => args.key = "malformed"
    /\ IndexError \notin get_proxy(args.proxies)
    /\ None \in get_proxy(args.proxies) <=> Members(args.proxies) = {}
    /\ Members(args.proxies) # {} => get_proxy(args.proxies) \subseteq Members(args.proxies)
    /\ \A j \in DOMAIN calls :
        IF Members(args.proxies) = {} THEN calls[j].proxy = None
        ELSE calls[j].proxy \in Members(args.proxies)

C22_Witness ==
    /\ args.nodes.kind = "list"
    /\ Cardinality(Members(args.nodes)) = 2
    /\ args.proxies.kind = "str"
    /\ Len(calls) = 2
    /\ calls[1].node # calls[2].node
    /\ calls[2].proxy = "http://p1"

(***************************************************************************)
(* C23: a call of transfer_sol_with_retries with retries < 1 is rejected:  *)
(* it never runs to completion and returns a result.                       *)
(***************************************************************************)
C23_ZeroRetriesRejected ==
    args.retries < 1 => rx.pc # "returned"

(***************************************************************************)
(* C24: a route makes at most 3 submission calls: between 1 and 3 once its *)
(* submission is over (3 when every attempt failed), and none when it      *)
(* returned without reaching submission; only the route being processed    *)
(* holds any, so n routes make at most 3n.                                 *)
(***************************************************************************)
C24_AtMostThreeSubmissionCalls ==
    /\ \A r \in Routes :
        /\ frames[r].attempts \in 0..3
        /\ frames[r].pc = "confirm" => frames[r].attempts >= 1
        /\ frames[r].signature # None => frames[r].attempts >= 1
        /\ (frames[r].pc = "ret" /\ LastInfo(frames[r]) = "tx error") => frames[r].attempts = 3
        /\ (frames[r].pc = "ret"
                /\ LastInfo(frames[r]) \in {"calc value error", "emulate", "value<value_min_limit"})
            => frames[r].attempts = 0
        /\ frames[r].pc \in {"idle", "calc"} => frames[r].attempts = 0
    /\ \A r1, r2 \in Routes :
        (frames[r1].attempts > 0 /\ frames[r2].attempts > 0) => r1 = r2

C24_Witness ==
    /\ outcome[1] = "tx error"
    /\ \E r \in Routes :
        /\ r > 1
        /\ frames[r].pc = "ret"
        /\ frames[r].attempts = 3
        /\ frames[r].signature # None

(***************************************************************************)
(* Claims about the RPC layer (SpecRpc)                                    *)
(***************************************************************************)
\* C25: for every node URL and every transport outcome rpc_call, and
\* get_balance built on it, returns Ok or Err: the call never raises.
C25_RpcCallNeverRaises ==
    /\ rpc.pc # "raised"
    /\ rpc.pc = "returned" => (~rpc.out.raised /\ (is_ok(rpc.out.res) \/ is_err(rpc.out.res)))

(***************************************************************************)
(* C26: while the routes are executed the node set, the proxy set, the key *)
(* map and the route list (with every route's value expression) stay what  *)
(* the load produced: no step of _run_transfers or _transfer changes them. *)
(***************************************************************************)
C26_ConfigUnchangedDuringRun ==
    Loaded =>
        /\ config.nodes = raw.nodes
        /\ config.proxies = raw.proxies
        /\ config.private_keys = raw.private_keys
        /\ config.transfers = fill_default_value(raw).transfers
        /\ config.token = raw.token
        /\ config.value_min_limit = raw.value_min_limit
        /\ config.delay = raw.delay

C26_Witness ==
    /\ main.pc = "finished"
    /\ Len(config.transfers) = 2
    /\ raw.transfers[1].value = ""
    /\ outcome[1] = "OK"
    /\ outcome[2] = "UNKNOWN"

(***************************************************************************)
(* C27: in one call of transfer_sol_with_retries the network accepts at    *)
(* most one transaction: after an attempt that returned Err although the   *)
(* node had accepted the transaction, no further attempt is made.          *)
(***************************************************************************)
C27_NoResubmitAfterAccepted ==
    /\ Cardinality({j \in DOMAIN calls : calls[j].accepted}) <= 1
    /\ \A j \in DOMAIN calls : calls[j].accepted => j = Len(calls)

(***************************************************************************)
(* C28: in emulate mode no route reaches _send_tx or wait_confirmation and *)
(* the run never sleeps: the delay between routes is only logged.  The     *)
(* value is still resolved and the minimum-limit check still made: a route *)
(* that returned has its value (or the value error) and, below the limit,  *)
(* the line of the check.                                                  *)
(***************************************************************************)
C28_EmulateNeverSubmitsNorSleeps ==
    cmd_params.emulate =>
        /\ main.slept = 0
        /\ main.delay_logs = DelaysDue(main.i)
        /\ \A r \in Routes :
            /\ frames[r].pc \notin {"send", "confirm"}
            /\ frames[r].attempts = 0
            /\ frames[r].signature = None
            /\ frames[r].wc = IdleWc
            /\ frames[r].pc = "ret" =>
                /\ frames[r].value.k \in {"None", "int"}
                /\ LastInfo(frames[r]) =
                        IF frames[r].value.k = "None" THEN "calc value error" ELSE "emulate"
                /\ (frames[r].value.k = "int" /\ below_min_limit(frames[r].value, config)) =>
                        \E j \in DOMAIN frames[r].info : frames[r].info[j] = "value<value_min_limit"

C28_Witness ==
    /\ cmd_params.emulate
    /\ Len(config.transfers) = 3
    /\ main.pc = "await"
    /\ main.i = 2
    /\ main.delay_logs = 2
    /\ main.slept = 0
    /\ outcome[1] = "emulate"
    /\ outcome[2] = "calc value error"
    /\ frames[3].pc = "ret"
    /\ frames[3].value.k = "int"
    /\ below_min_limit(frames[3].value, config)
    /\ frames[3].info = <<"value<value_min_limit", "emulate">>

(***************************************************************************)
(* C29: in token mode no route is processed before the token decimals      *)
(* lookup has succeeded.  Whenever the loop of _run_transfers has been     *)
(* entered, or any route has begun or left an outcome, token_decimals is   *)
(* the fetched value and not the default -1; after a failed lookup the     *)
(* command is at its fatal exit with no route begun.                       *)
(***************************************************************************)
RouteProcessingBegun ==
    \/ main.pc \in {"loop", "await", "finished", "crashed"}
    \/ main.i > 0
    \/ \E r \in Routes : frames[r] # IdleFrame \/ outcome[r] # "pending"

C29_DecimalsFetchedBeforeAnyRoute ==
    /\ (config.token # None /\ RouteProcessingBegun) =>
            /\ config.token_decimals # -1
            /\ OkInt(config.token_decimals) \in get_token_decimals(config)
    /\ main.pc = "fatal" =>
            /\ config.token # None
            /\ config.token_decimals = -1
            /\ ~RouteProcessingBegun

C29_Witness ==
    /\ config.token # None
    /\ config.token_decimals = 6
    /\ config.value_min_limit.k # "None"
    /\ main.pc = "await"
    /\ main.i = 1
    /\ frames[2].pc = "confirm"
    /\ frames[2].value.k = "int"
    /\ below_min_limit(frames[2].value, config)

C29_WitnessFatal ==
    /\ config.token # None
    /\ main.pc = "fatal"

(***************************************************************************)
(* C30: when no status query ever confirms, wait_confirmation makes        *)
(* exactly 31 queries, each followed by one sleep (the last one included), *)
(* and then returns false; a 32nd query is never made.                     *)
(***************************************************************************)
C30_ThirtyOneQueriesThenFalse ==
    /\ wc.queries <= 31
    /\ wc.pc = "loop" => wc.queries <= 30
    /\ (wc.pc # "idle" /\ ~has_slot(wc.last)) =>
            /\ wc.sleeps = wc.queries
            /\ wc.count = wc.queries
    /\ (wc.pc = "returned" /\ ~has_slot(wc.last)) =>
            /\ ~wc.result
            /\ wc.queries = 31
            /\ wc.sleeps = 31
    /\ (wc.pc = "returned" /\ ~wc.result) => ~has_slot(wc.last)

C30_Witness ==
    /\ wc.pc = "returned"
    /\ ~wc.result
    /\ wc.last = "null"
    /\ wc.queries = 31
    /\ wc.sleeps = 31
    /\ wc.emitted = <<"can't get confirmation, timeout">>

(***************************************************************************)
(* C31: with a private key that is the key of another address, every       *)
(* attempt of transfer_sol returns Err('invalid_private_key') without      *)
(* reaching get_client and without any transaction accepted, whatever the  *)
(* network would do; transfer_sol_with_retries goes through all `retries`  *)
(* attempts and returns that Err.                                          *)
(***************************************************************************)
C31_InvalidKeyNeverSubmits ==
    (args.key = "mismatch" /\ args.retries >= 1) =>
        /\ \A j \in DOMAIN calls :
            /\ calls[j].res = Err("invalid_private_key")
            /\ ~calls[j].raised
            /\ ~calls[j].client
            /\ ~calls[j].accepted
        /\ \A node \in get_node(args.nodes), net \in NetOutcomes :
            transfer_sol(node, None, args.key, net).res = Err("invalid_private_key")
        /\ rx.pc = "returned" =>
            /\ Len(calls) = args.retries
            /\ rx.res = Err("invalid_private_key")
        /\ rx.pc = "raised" => Members(args.nodes) = {} /\ calls = <<>>

C31_Witness ==
    /\ args.key = "mismatch"
    /\ args.retries = 3
    /\ Cardinality(Members(args.nodes)) = 2
    /\ rx.pc = "returned"
    /\ Len(calls) = 3
    /\ calls[1].node # calls[3].node
    /\ rx.res = Err("invalid_private_key")

(***************************************************************************)
(* C32 as stated: _http_call gives a response exactly one outcome, in this *)
(* priority: a transport error is an Err; otherwise a non-empty            *)
(* error.message is Err service_error, a result key or not; otherwise a    *)
(* result key is Ok(result); otherwise the outcome is Err unknown_response.*)
(***************************************************************************)
HttpCallReturned ==
    /\ rpc.pc = "returned"
    /\ rpc.fn = "rpc_call"

C32_FourOutcomesInPriority ==
    HttpCallReturned =>
        IF response_is_err(rpc.http) THEN is_err(rpc.out.res)
        ELSE IF error_message(rpc.http) # "" THEN rpc.out.res = Err("service_error")
        ELSE IF has_result(rpc.http) THEN rpc.out.res = Ok(result_of(rpc.http))
        ELSE rpc.out.res = Err("unknown_response")

(***************************************************************************)
(* C32 amended: the same priority with one more outcome after the          *)
(* transport error: a body that cannot be read as JSON is an Err of its    *)
(* own (invalid_json) and not unknown_response.  Ok is returned only for a *)
(* body with a result key and no non-empty error message.                  *)
(***************************************************************************)
C32_FiveOutcomesInPriority ==
    HttpCallReturned =>
        /\ IF response_is_err(rpc.http) THEN is_err(rpc.out.res)
           ELSE IF json_body_is_err(rpc.http)
                THEN is_err(rpc.out.res) /\ rpc.out.res # Err("unknown_response")
           ELSE IF error_message(rpc.http) # "" THEN rpc.out.res = Err("service_error")
           ELSE IF has_result(rpc.http) THEN rpc.out.res = Ok(result_of(rpc.http))
           ELSE rpc.out.res = Err("unknown_response")
        /\ is_ok(rpc.out.res) => (has_result(rpc.http) /\ error_message(rpc.http) = "")

C32_Witness ==
    /\ HttpCallReturned
    /\ rpc.http = "error_and_result"
    /\ rpc.out.res = Err("service_error")

(***************************************************************************)
(* C33: get_token_balance never raises.  A missing token account, reported *)
(* in a returned message or in a raised RPC exception, is Ok(0); every     *)
(* other RPC exception, HTTP status error or exception is an Err; a reply  *)
(* with the balance is Ok(amount).                                         *)
(***************************************************************************)
C33_TokenBalanceNeverRaises ==
    /\ rpc.pc # "raised"
    /\ rpc.pc = "returned" =>
        /\ ~rpc.out.raised
        /\ rpc.reply \in {"message_no_account", "rpc_exception_no_account"}
                => rpc.out.res = OkInt(0)
        /\ rpc.reply = "balance" => rpc.out.res = OkInt(rpc.amount)
        /\ rpc.reply \in {"message_other", "rpc_exception_other", "http_status_error",
                          "solana_rpc_exception", "exception"}
                => is_err(rpc.out.res)

C33_Witness ==
    /\ rpc.pc = "returned"
    /\ rpc.reply = "rpc_exception_no_account"
    /\ rpc.out.res = OkInt(0)

(***************************************************************************)
(* C34: the transfer-sol command calls transfer_sol_with_retries once per  *)
(* entry of the recipients list, in list order; an Err for one recipient   *)
(* does not stop the loop; and the printed result holds one outcome for    *)
(* every entry of the list, a recipient that appears twice included.       *)
(***************************************************************************)
C34_OneOutcomePerRecipientEntry ==
    /\ Len(calls) <= Len(config.recipients)
    /\ \A j \in DOMAIN calls : calls[j].to_address = config.recipients[j]
    /\ \A j \in DOMAIN calls : calls[j].out.raised => (main.pc = "raised" /\ j = Len(calls))
    /\ main.pc = "printed" =>
        /\ Len(calls) = Len(config.recipients)
        /\ Cardinality(DOMAIN outcome) = Len(config.recipients)

====
